---- MODULE Spec2Model ----
(***************************************************************************)
(* Session orchestration of the Sylvia learning facilitator (src/app.py).  *)
(*                                                                         *)
(* The program is a Streamlit script: every UI event runs the whole script *)
(* once, top to bottom, with at most one button reporting "pressed".  One  *)
(* action below is one such script run (including the re-execution that    *)
(* st.rerun() triggers), applied to st.session_state.                      *)
(*                                                                         *)
(* Python lists are objects: st.session_state.messages and the "messages"  *)
(* field of an archived entry are references into a heap of lists, so that *)
(* list(x) (a copy) and plain assignment (an alias) differ as in Python.   *)
(*                                                                         *)
(* Texts are sequences of chunks: typed text is a sequence of one-letter   *)
(* strings, a literal of the program is a single chunk, an f-string is the *)
(* concatenation of its pieces.                                            *)
(***************************************************************************)
EXTENDS Integers, Sequences, FiniteSets, TLC

\* ------------------------------------------------------------------ bounds
\* The clock runs from 0 to MaxTime ticks; a tick is 1/TicksPerSec second.
MaxTime == 2
TicksPerSec == 2
\* Longest message list a handler may produce.
MaxMsgs == 4
\* Most messages the live lists may hold together.
MaxHeap == MaxMsgs + 1
\* Most exchanges (a user message and its reply) of a long conversation.
MaxExchanges == 9

\* --------------------------------------------------------------- constants
None == "None"

\* ------------------------------------------------------------------- state
VARIABLES
    messages,            \* st.session_state.messages: reference to a list
    heap,                \* list objects: reference -> sequence of messages
    sessions,            \* st.session_state.sessions: id -> archived entry
    current_session_id,  \* st.session_state.current_session_id
    session_start_ts,    \* st.session_state.session_start_ts (clock ticks)
    goals_count,         \* st.session_state.goals_count
    coach_mode,          \* st.session_state.coach_mode (None or a mode key)
    client,              \* whether genai.Client exists (API key configured)
    use_search_tool,     \* the "Enable Google Search grounding" checkbox
    now,                 \* wall clock, in ticks
    sent,                \* calls of generate_content in the last run: the
                         \* parts and the config handed over, and the outcome
    last                 \* the event of the last script run

vars == <<messages, heap, sessions, current_session_id, session_start_ts,
          goals_count, coach_mode, client, use_search_tool, now, sent, last>>

\* ------------------------------------------------------------ text helpers
IsSpace(c) == c \in {" "}

RECURSIVE lstrip(_)
lstrip(s) == IF s # <<>> /\ IsSpace(Head(s)) THEN lstrip(Tail(s)) ELSE s

RECURSIVE rstrip(_)
rstrip(s) ==
    IF s # <<>> /\ IsSpace(s[Len(s)]) THEN rstrip(SubSeq(s, 1, Len(s) - 1)) ELSE s

\* str.strip()
strip(s) == rstrip(lstrip(s))

Uppers == <<"A", "B", "C", "D", "E", "F", "G", "H", "I", "J", "K", "L", "M",
            "N", "O", "P", "Q", "R", "S", "T", "U", "V", "W", "X", "Y", "Z">>
Lowers == <<"a", "b", "c", "d", "e", "f", "g", "h", "i", "j", "k", "l", "m",
            "n", "o", "p", "q", "r", "s", "t", "u", "v", "w", "x", "y", "z">>

LowerChar(c) ==
    IF \E i \in 1..Len(Uppers) : Uppers[i] = c
    THEN Lowers[CHOOSE i \in 1..Len(Uppers) : Uppers[i] = c]
    ELSE c

\* str.lower()
lower(s) == [i \in 1..Len(s) |-> LowerChar(s[i])]

\* k in s, for strings
Contains(k, s) ==
    \E i \in 1..(Len(s) - Len(k) + 1) : SubSeq(s, i, i + Len(k) - 1) = k

\* ------------------------------------------------------------------- clock
\* datetime.now().strftime("%Y%m%d-%H%M%S"): the clock at second resolution.
strftime(t) == t \div TicksPerSec

\* int(time.time() - start)
elapsed(t, start) == (t - start) \div TicksPerSec

\* ------------------------------------------------------------------- lists
Msg(role, content) == [role |-> role, content |-> content]

\* a reference no live list uses
NewRef(h) == CHOOSE r \in 0..Cardinality(DOMAIN h) : r \notin DOMAIN h

Put(f, k, v) == [x \in DOMAIN f \cup {k} |-> IF x = k THEN v ELSE f[x]]

\* the session state one script run works on
Cur == [messages |-> messages, heap |-> heap, sessions |-> sessions,
        current_session_id |-> current_session_id,
        session_start_ts |-> session_start_ts,
        goals_count |-> goals_count, coach_mode |-> coach_mode,
        sent |-> <<>>]

\* variant: the list keeps its last message only before taking the new one
AppendMsg_Trim(S, m) ==
    [S EXCEPT !.heap[S.messages] = Append(SubSeq(@, Len(@), Len(@)), m)]

\* st.session_state.messages.append(m)
AppendMsg(S, m) == [S EXCEPT !.heap[S.messages] = Append(@, m)]

\* st.session_state.messages = [m]  (a new list object)
SetMsgs(S, ms) ==
    LET r == NewRef(S.heap)
    IN [S EXCEPT !.heap = Put(S.heap, r, ms), !.messages = r]

RECURSIVE TotalLen(_, _)
TotalLen(h, refs) ==
    IF refs = {} THEN 0
    ELSE LET r == CHOOSE x \in refs : TRUE
         IN Len(h[r]) + TotalLen(h, refs \ {r})

\* lists nothing refers to any more are reclaimed
Live(S) == {S.messages} \cup {S.sessions[k].messages : k \in DOMAIN S.sessions}
\* References have no meaning beyond identity: live lists are renumbered, the
\* list of the entry with the smallest key that holds it first, a list only
\* the current session holds as 0.
Holders(S, r) == {k \in DOMAIN S.sessions : S.sessions[k].messages = r}
Renumber(S, r) ==
    IF Holders(S, r) = {} THEN 0
    ELSE 1 + (CHOOSE k \in Holders(S, r) : \A j \in Holders(S, r) : k <= j)

Collect(S) ==
    LET n == [r \in Live(S) |-> Renumber(S, r)]
    IN [S EXCEPT !.heap = [i \in {n[r] : r \in Live(S)} |->
                              S.heap[CHOOSE r \in Live(S) : n[r] = i]],
                 !.messages = n[S.messages],
                 !.sessions = [k \in DOMAIN S.sessions |->
                                 [S.sessions[k] EXCEPT !.messages = n[@]]]]

\* ---------------------------------------------------------------- catalogs
\* keys of COACH_PROMPTS / quick_actions, with their spelling
ModeKeys == {"goal", "taskanalysis", "strategies", "motivation", "timelog",
             "resources", "reflection", "feedback", "save"}

Spell(mode) ==
    CASE mode = "goal" -> <<"g", "o", "a", "l">>
      [] mode = "taskanalysis" ->
            <<"t", "a", "s", "k", "a", "n", "a", "l", "y", "s", "i", "s">>
      [] mode = "strategies" -> <<"s", "t", "r", "a", "t", "e", "g", "i", "e", "s">>
      [] mode = "motivation" -> <<"m", "o", "t", "i", "v", "a", "t", "i", "o", "n">>
      [] mode = "timelog" -> <<"t", "i", "m", "e", "l", "o", "g">>
      [] mode = "resources" -> <<"r", "e", "s", "o", "u", "r", "c", "e", "s">>
      [] mode = "reflection" -> <<"r", "e", "f", "l", "e", "c", "t", "i", "o", "n">>
      [] mode = "feedback" -> <<"f", "e", "e", "d", "b", "a", "c", "k">>
      [] mode = "save" -> <<"s", "a", "v", "e">>
      [] OTHER -> <<>>

\* COACH_PROMPTS[mode], the instruction text abbreviated to its key
COACH_PROMPTS == [mode \in ModeKeys |-> <<"SRL coaching: ", mode>>]

\* assistant_seed[mode]
assistant_seed == [mode \in ModeKeys |-> <<"seed: ", mode>>]

Greeting == <<"Hello! I'm Sylvia. What task are you working on today?">>
NewSessionGreeting == <<"New session started. What would you like to work on?">>
ClearedGreeting == <<"Chat cleared. What next?">>
SavedNotice == <<"Session saved.">>
NotInitialized == <<"Model not initialized">>
NoTextResponse == <<"(No text response)">>

\* the words the goal heuristic looks for
GoalKeywords == {<<"g", "o", "a", "l">>, <<"l", "e", "a", "r", "n">>,
                 <<"m", "a", "s", "t", "e", "r">>,
                 <<"m", "y", " ", "g", "o", "a", "l">>}

\* "goal" in (coach_mode or "")
GoalMode(mode) == Contains(<<"g", "o", "a", "l">>, Spell(mode))

\* ------------------------------------------------------------------ inputs
\* what the user may have typed when Send is pressed
UserTexts == {<<" ">>, <<" ", "h", "i", " ">>, <<"G", "o", "a", "l">>}

\* the quick actions the user presses: a coaching nudge and Save Session
PressedModes == {"goal", "save"}

\* what generate_content may do: raise, or return a response object
Raise(e) == [raises |-> TRUE, e |-> e, text |-> <<>>, candidates |-> <<>>]
Resp(text, candidates) ==
    [raises |-> FALSE, e |-> "", text |-> text, candidates |-> candidates]

Outcomes == {Raise("timeout"), Resp(<<"Sure.">>, <<>>)}

\* Response objects in general.  A candidate is the sequence of the texts of
\* its parts, <<>> for a part without text; a candidate without content or
\* parts is the empty sequence.  resp.text is <<>> when None or "".
MaxCandidates == 2
PartTexts == {<<>>, <<<<>>>>, <<<<"A">>>>, <<<<>>, <<>>>>, <<<<>>, <<"A">>>>,
              <<<<>>, <<"B">>>>, <<<<"A">>, <<"B">>>>, <<<<"B">>, <<"A">>>>}
CandidateLists == UNION {[1..n -> PartTexts] : n \in 0..MaxCandidates}
Responses == {Resp(text, cands) : text \in {<<>>, <<"T">>}, cands \in CandidateLists}

\* --------------------------------------------------------------- call_model
\* the parts of the request, each tagged with the statement that adds it
Part(source, text) == [source |-> source, text |-> text]

NudgeParts(mode) ==
    IF mode # None /\ mode \in DOMAIN COACH_PROMPTS
    THEN <<Part("Nudge", <<"[Coach Instruction]\n">> \o COACH_PROMPTS[mode])>>
    ELSE <<>>

HistoryWindow == 16

\* variant: the window taken from the start of the log
Recent_Oldest(ms) == SubSeq(ms, 1, IF Len(ms) > HistoryWindow THEN HistoryWindow ELSE Len(ms))

\* st.session_state.messages[-16:]
Recent(ms) == SubSeq(ms, IF Len(ms) > HistoryWindow THEN Len(ms) - HistoryWindow + 1 ELSE 1, Len(ms))

HistoryParts(ms) ==
    [i \in 1..Len(Recent(ms)) |->
        Part("History",
             (IF Recent(ms)[i].role = "user" THEN <<"User: ">> ELSE <<"Assistant: ">>)
                \o Recent(ms)[i].content)]

UserPart(user_message) == <<Part("UserText", <<"User: ">> \o user_message)>>

\* variant: the transcript composed ahead of the coach prompt
ComposeParts_HistoryFirst(ms, user_message, mode) ==
    HistoryParts(ms) \o NudgeParts(mode) \o UserPart(user_message)

\* parts: coach prompt, then the transcript, then the new user message
ComposeParts(ms, user_message, mode) ==
    NudgeParts(mode) \o HistoryParts(ms) \o UserPart(user_message)

\* first non-empty part text over the candidates, <<>> when there is none
RECURSIVE FirstPartText(_)
FirstPartText(cands) ==
    IF cands = <<>> THEN <<>>
    ELSE LET ps == SelectSeq(Head(cands), LAMBDA p : p # <<>>)
         IN IF ps # <<>> THEN Head(ps) ELSE FirstPartText(Tail(cands))

\* variant: the candidates never looked at
GatewayResult_NoFallback(o) ==
    IF o.raises THEN <<"Model call failed: ", o.e>>
    ELSE IF o.text # <<>> THEN o.text
    ELSE NoTextResponse

\* the try/except around generate_content
GatewayResult(o) ==
    IF o.raises THEN <<"Model call failed: ", o.e>>
    ELSE IF o.text = <<>> /\ o.candidates # <<>> /\ FirstPartText(o.candidates) # <<>>
         THEN FirstPartText(o.candidates)
    ELSE IF o.text # <<>> THEN o.text
    ELSE NoTextResponse

\* a Python value that is None or a list
PyNone == [none |-> TRUE, items |-> <<>>]
PyList(xs) == [none |-> FALSE, items |-> xs]

\* tools = []; if use_search_tool: tools.append(Tool(google_search=...))
BuildTools(search) == IF search THEN <<"google_search">> ELSE <<>>

\* GenerateContentConfig(..., tools=tools if tools else None, ...); the
\* system instruction, thinking budget, temperature and token limit are
\* passed through unchanged and left out
generation_cfg(search) ==
    [tools |-> IF BuildTools(search) # <<>> THEN PyList(BuildTools(search)) ELSE PyNone]

\* one call of generate_content: what it was given and what it did
Call(parts, config, o) == [parts |-> parts, config |-> config, outcome |-> o]

\* variant: no check for a missing client
call_model_NoClientCheck(S, user_message, mode, o) ==
    [text |-> GatewayResult(o),
     sent |-> <<Call(ComposeParts(S.heap[S.messages], user_message, mode),
                     generation_cfg(use_search_tool), o)>>]

\* call_model(user_message, coach_mode): the text returned and the calls made
call_model(S, user_message, mode, o) ==
    IF ~client
    THEN [text |-> NotInitialized, sent |-> <<>>]
    ELSE [text |-> GatewayResult(o),
          sent |-> <<Call(ComposeParts(S.heap[S.messages], user_message, mode),
                          generation_cfg(use_search_tool), o)>>]

\* ---------------------------------------------------------------- handlers
\* the archive entry built from the current session (the dict literal)
Snapshot(S, r) ==
    [id |-> S.current_session_id,
     created |-> S.current_session_id,
     messages |-> r,
     goals_count |-> S.goals_count,
     elapsed_sec |-> elapsed(now, S.session_start_ts),
     title |-> <<"Session ", S.current_session_id>>]

\* sessions[sid] = {..., "messages": list(messages), ...}
Archive(S) ==
    LET r == NewRef(S.heap)
    IN [S EXCEPT !.heap = Put(S.heap, r, S.heap[S.messages]),
                 !.sessions = Put(S.sessions, S.current_session_id, Snapshot(S, r))]

save_current_session(S) == Archive(S)

\* a quick-action button: set the nudge, append the seed
QuickActionH(S, mode) ==
    AppendMsg([S EXCEPT !.coach_mode = mode], Msg("assistant", assistant_seed[mode]))

\* variant: reset without archiving
NewSessionH_NoArchive(S) ==
    LET R == SetMsgs(S, <<Msg("assistant", NewSessionGreeting)>>)
    IN [R EXCEPT !.current_session_id = strftime(now),
                 !.session_start_ts = now,
                 !.goals_count = 0,
                 !.coach_mode = None]

\* the New Session button: archive, then reset
NewSessionH(S) ==
    LET A == Archive(S)
        R == SetMsgs(A, <<Msg("assistant", NewSessionGreeting)>>)
    IN [R EXCEPT !.current_session_id = strftime(now),
                 !.session_start_ts = now,
                 !.goals_count = 0,
                 !.coach_mode = None]

\* variant: the guard without strip()
SendGuard_NoStrip(user_text) == user_text # <<>>

\* send_clicked and user_text.strip()
SendGuard(user_text) == strip(user_text) # <<>>

\* variant: the heuristic without the test of the nudge
BumpGoals_AnyMode(S, user_text) ==
    IF \E k \in GoalKeywords : Contains(k, lower(user_text))
    THEN [S EXCEPT !.goals_count = @ + 1]
    ELSE S

\* the goal heuristic of the send handler
BumpGoals(S, user_text) ==
    IF GoalMode(S.coach_mode) /\ \E k \in GoalKeywords : Contains(k, lower(user_text))
    THEN [S EXCEPT !.goals_count = @ + 1]
    ELSE S

\* variant: an exception of the model call leaves the handler
SendH_Uncaught(S, user_text, o) ==
    IF ~SendGuard(user_text) THEN S
    ELSE LET S1 == AppendMsg(S, Msg("user", strip(user_text)))
             S2 == BumpGoals(S1, user_text)
             r == call_model(S2, strip(user_text), S2.coach_mode, o)
             S3 == AppendMsg([S2 EXCEPT !.sent = r.sent], Msg("assistant", r.text))
         IN IF client /\ o.raises
            THEN [S2 EXCEPT !.sent = r.sent]
            ELSE [S3 EXCEPT !.coach_mode = None]

\* the send handler, Send pressed with user_text in the box
SendH(S, user_text, o) ==
    IF ~SendGuard(user_text) THEN S
    ELSE LET S1 == AppendMsg(S, Msg("user", strip(user_text)))
             S2 == BumpGoals(S1, user_text)
             r == call_model(S2, strip(user_text), S2.coach_mode, o)
             S3 == AppendMsg([S2 EXCEPT !.sent = r.sent], Msg("assistant", r.text))
         IN [S3 EXCEPT !.coach_mode = None]

\* the Clear chat button
ClearChatH(S) ==
    LET R == SetMsgs(S, <<Msg("assistant", ClearedGreeting)>>)
    IN [R EXCEPT !.coach_mode = None,
                 !.goals_count = 0,
                 !.session_start_ts = now]

\* sorted(ids, reverse=True)
RECURSIVE SortedDesc(_)
SortedDesc(ids) ==
    IF ids = {} THEN <<>>
    ELSE LET m == CHOOSE x \in ids : \A y \in ids : y <= x
         IN <<m>> \o SortedDesc(ids \ {m})

RecentLimit == 8

\* items: the ids of the entries Recent Sessions shows, in display order
RecentItems(S) ==
    LET all == SortedDesc(DOMAIN S.sessions)
    IN SubSeq(all, 1, IF Len(all) > RecentLimit THEN RecentLimit ELSE Len(all))

\* variant: the pending nudge survives a load
LoadH_KeepNudge(S, sid) ==
    [S EXCEPT !.current_session_id = S.sessions[sid].id,
              !.messages = S.sessions[sid].messages,
              !.goals_count = S.sessions[sid].goals_count,
              !.session_start_ts = now]

\* variant: a load gives the session a new id
LoadH_FreshId(S, sid) ==
    [S EXCEPT !.current_session_id = strftime(now),
              !.messages = S.sessions[sid].messages,
              !.goals_count = S.sessions[sid].goals_count,
              !.session_start_ts = now,
              !.coach_mode = None]

\* a Load button
LoadH(S, sid) ==
    [S EXCEPT !.current_session_id = S.sessions[sid].id,
              !.messages = S.sessions[sid].messages,
              !.goals_count = S.sessions[sid].goals_count,
              !.session_start_ts = now,
              !.coach_mode = None]

\* variant: the save nudge left pending
AutoSaveH_KeepNudge(S) ==
    IF S.coach_mode = "save"
    THEN AppendMsg(save_current_session(S), Msg("assistant", SavedNotice))
    ELSE S

\* the end of the script: if the last action was "save", save and confirm
AutoSaveH(S) ==
    IF S.coach_mode = "save"
    THEN [AppendMsg(save_current_session(S), Msg("assistant", SavedNotice))
            EXCEPT !.coach_mode = None]
    ELSE S

\* the transcript offered for download
Transcript(S) ==
    [id |-> S.current_session_id,
     created |-> S.current_session_id,
     messages |-> S.heap[S.messages],
     elapsed_sec |-> elapsed(now, S.session_start_ts),
     goals_count |-> S.goals_count]

\* ----------------------------------------------------------------- actions
\* an event: the button, and for Send the text in the box and whether the
\* gateway call raised, for a quick action its mode, for Load the entry
Event(op, text, mode, sid, failed) ==
    [op |-> op, text |-> text, mode |-> mode, sid |-> sid, failed |-> failed]

\* the state a script run leaves, within the bound on list lengths
Commit(S0, ev) ==
    \E H \in {S0} : \E E \in {AutoSaveH(H)} : \E S \in {Collect(E)} :
       /\ \A r \in DOMAIN S.heap : Len(S.heap[r]) <= MaxMsgs
       /\ TotalLen(S.heap, DOMAIN S.heap) <= MaxHeap
       /\ messages' = S.messages
       /\ heap' = S.heap
       /\ sessions' = S.sessions
       /\ current_session_id' = S.current_session_id
       /\ session_start_ts' = S.session_start_ts
       /\ goals_count' = S.goals_count
       /\ coach_mode' = S.coach_mode
       /\ sent' = S.sent
       /\ last' = ev
       /\ UNCHANGED <<client, use_search_tool, now>>

Init ==
    /\ now = 0
    /\ client \in BOOLEAN
    /\ use_search_tool = FALSE
    /\ messages = 0
    /\ heap = [r \in {0} |-> <<Msg("assistant", Greeting)>>]
    /\ sessions = [k \in {} |-> 0]
    /\ current_session_id = strftime(now)
    /\ session_start_ts = now
    /\ goals_count = 0
    /\ coach_mode = None
    /\ sent = <<>>
    /\ last = Event("init", <<>>, "", -1, FALSE)

QuickAction == \E mode \in PressedModes :
    Commit(QuickActionH(Cur, mode), Event("quick", <<>>, mode, -1, FALSE))

NewSession == Commit(NewSessionH(Cur), Event("new_session", <<>>, "", -1, FALSE))

\* Send pressed; with blank text the guard fails and the run is the one any
\* event without a handler causes (a widget edited)
Send == \E user_text \in UserTexts, o \in Outcomes :
    Commit(SendH(Cur, user_text, o),
           Event("send", user_text, "", -1, SendGuard(user_text) /\ client /\ o.raises))

ClearChat == Commit(ClearChatH(Cur), Event("clear", <<>>, "", -1, FALSE))

Load == \E i \in 1..Len(RecentItems(Cur)) :
    Commit(LoadH(Cur, RecentItems(Cur)[i]),
           Event("load", <<>>, "", RecentItems(Cur)[i], FALSE))

\* time passes between events
Tick ==
    /\ now < MaxTime
    /\ now' = now + 1
    /\ UNCHANGED <<messages, heap, sessions, current_session_id, session_start_ts,
                   goals_count, coach_mode, client, use_search_tool, sent, last>>

Next ==
    \/ QuickAction
    \/ NewSession
    \/ Send
    \/ ClearChat
    \/ Load
    \/ Tick

Spec == Init /\ [][Next]_vars

\* ------------------------------------------------- long conversations
\* The send handler on conversations longer than the history window: the
\* initial state is a log the program reaches (the greeting, perhaps the seed
\* of an early quick action, then exchanges, perhaps the seed of a quick
\* action still pending), and the one step is a Send.
Exchange(i) == <<Msg("user", <<"q", ToString(i)>>),
                 Msg("assistant", <<"a", ToString(i)>>)>>

RECURSIVE Exchanges(_)
Exchanges(k) == IF k = 0 THEN <<>> ELSE Exchanges(k - 1) \o Exchange(k)

Seed(mode) == <<Msg("assistant", assistant_seed[mode])>>

LongLog(k, early, pending) ==
    <<Msg("assistant", Greeting)>>
       \o (IF early THEN Seed("goal") ELSE <<>>)
       \o Exchanges(k)
       \o (IF pending THEN Seed("goal") ELSE <<>>)

\* the state a script run leaves
Finish(S0, ev) ==
    \E H \in {S0} : \E E \in {AutoSaveH(H)} : \E S \in {Collect(E)} :
       /\ messages' = S.messages
       /\ heap' = S.heap
       /\ sessions' = S.sessions
       /\ current_session_id' = S.current_session_id
       /\ session_start_ts' = S.session_start_ts
       /\ goals_count' = S.goals_count
       /\ coach_mode' = S.coach_mode
       /\ sent' = S.sent
       /\ last' = ev
       /\ UNCHANGED <<client, use_search_tool, now>>

InitLong ==
    /\ now = 0
    /\ client = TRUE
    /\ use_search_tool = FALSE
    /\ messages = 0
    /\ \E k \in 0..MaxExchanges, early \in BOOLEAN, pending \in BOOLEAN :
          /\ heap = [r \in {0} |-> LongLog(k, early, pending)]
          /\ coach_mode = IF pending THEN "goal" ELSE None
    /\ sessions = [k \in {} |-> 0]
    /\ current_session_id = strftime(now)
    /\ session_start_ts = now
    /\ goals_count = 0
    /\ sent = <<>>
    /\ last = Event("init", <<>>, "", -1, FALSE)

LongSend ==
    /\ last.op = "init"
    /\ \E user_text \in UserTexts, o \in Outcomes :
          Finish(SendH(Cur, user_text, o),
                 Event("send", user_text, "", -1, SendGuard(user_text) /\ client /\ o.raises))

SpecLongLog == InitLong /\ [][LongSend]_vars

\* ------------------------------------------------------ the model call
\* call_model on every shape of response and either setting of the search
\* checkbox: the initial state is that of a fresh session, the one step is
\* a Send.
InitGateway ==
    /\ now = 0
    /\ client = TRUE
    /\ use_search_tool \in BOOLEAN
    /\ messages = 0
    /\ heap = [r \in {0} |-> <<Msg("assistant", Greeting)>>]
    /\ sessions = [k \in {} |-> 0]
    /\ current_session_id = strftime(now)
    /\ session_start_ts = now
    /\ goals_count = 0
    /\ coach_mode = None
    /\ sent = <<>>
    /\ last = Event("init", <<>>, "", -1, FALSE)

GatewaySend ==
    /\ last.op = "init"
    /\ \E user_text \in UserTexts, o \in Responses \cup {Raise("timeout")} :
          Finish(SendH(Cur, user_text, o),
                 Event("send", user_text, "", -1, SendGuard(user_text) /\ client /\ o.raises))

SpecGateway == InitGateway /\ [][GatewaySend]_vars

\* ------------------------------------------------------------------ claims
\* the current message log
Log == heap[messages]

\* an archived entry with its message list read out
EntryValue(ss, h, k) == [ss[k] EXCEPT !.messages = h[ss[k].messages]]

\* the step is a script run for the button op
Ran(op) == now' = now /\ last'.op = op

Parts(i) == sent[i].parts

\* C1 (as stated): in every request composed for a send the new-turn segments
\* appear in the order nudge, URL context, attachments, user text, and every
\* history segment precedes all of them.
NewTurnRank(src) ==
    CASE src = "Nudge" -> 1
      [] src = "UrlContext" -> 2
      [] src = "Attachment" -> 3
      [] src = "UserText" -> 4
      [] OTHER -> 0
C1_HistoryBeforeNewTurn ==
    \A i \in 1..Len(sent) : \A a, b \in 1..Len(Parts(i)) :
        a < b => NewTurnRank(Parts(i)[a].source) <= NewTurnRank(Parts(i)[b].source)

\* C1 (amended): every request composed for a send consists of the nudge
\* segment (when a catalogued nudge is pending), then the history segments,
\* then exactly one user-text segment, in that order; there are no other
\* segments.
CodeRank(src) ==
    CASE src = "Nudge" -> 0
      [] src = "History" -> 1
      [] src = "UserText" -> 2
      [] OTHER -> 3
C1_NudgeHistoryUserText ==
    \A i \in 1..Len(sent) :
        /\ \A a \in 1..Len(Parts(i)) : CodeRank(Parts(i)[a].source) <= 2
        /\ \A a, b \in 1..Len(Parts(i)) :
              a < b => CodeRank(Parts(i)[a].source) <= CodeRank(Parts(i)[b].source)
        /\ Cardinality({a \in 1..Len(Parts(i)) : Parts(i)[a].source = "UserText"}) = 1
        /\ Cardinality({a \in 1..Len(Parts(i)) : Parts(i)[a].source = "Nudge"}) <= 1

\* a request with a nudge, history and user text was composed
C1_Witness ==
    \E i \in 1..Len(sent) :
        /\ Parts(i)[1].source = "Nudge"
        /\ \E a \in 1..Len(Parts(i)) : Parts(i)[a].source = "History"
        /\ Parts(i)[Len(Parts(i))].source = "UserText"

\* C2: no request reaches the gateway for a turn without content: every
\* request sent belongs to a Send whose trimmed text is not empty, and a Send
\* with blank text and no pending nudge sends nothing and leaves the message
\* log, the goals counter and the pending nudge as they were.
BlankSend == Ran("send") /\ strip(last'.text) = <<>> /\ coach_mode = None
C2_BlankSendRejected ==
    /\ [](sent # <<>> => (last.op = "send" /\ strip(last.text) # <<>>))
    /\ [][BlankSend => /\ sent' = <<>>
                       /\ Log' = Log
                       /\ goals_count' = goals_count
                       /\ coach_mode' = coach_mode]_vars

\* Send was pressed on blank text, with a client and no nudge pending
C2_Witness ==
    /\ last.op = "send" /\ last.text # <<>> /\ strip(last.text) = <<>>
    /\ client /\ coach_mode = None /\ sent = <<>>

\* the step archives the current session: New Session, or Save Session
IsSave ==
    now' = now /\ (last'.op = "new_session" \/ (last'.op = "quick" /\ last'.mode = "save"))

\* the entries of the archive are, one for one, what they were
SameEntry(k) ==
    k \in DOMAIN sessions' /\ EntryValue(sessions', heap', k) = EntryValue(sessions, heap, k)
ArchiveSame ==
    DOMAIN sessions' = DOMAIN sessions /\ \A k \in DOMAIN sessions : SameEntry(k)

\* C3: every save (Save Session, the archive step of New Session) adds one
\* entry to the archive and leaves every entry archived before as it was.
C3_SaveAddsEntry ==
    [][IsSave => /\ Cardinality(DOMAIN sessions') = Cardinality(DOMAIN sessions) + 1
                 /\ \A k \in DOMAIN sessions : SameEntry(k)]_vars

\* C4: an archived entry is an immutable snapshot: a Send or a quick-action
\* press on the current session changes the messages and goals count of no
\* entry of the archive (for Save Session: of no entry but the one it saves).
C4_ArchivedImmutable ==
    [][(Ran("send") \/ Ran("quick")) =>
          \A k \in DOMAIN sessions :
              (last'.mode = "save" /\ k = current_session_id) \/ SameEntry(k)]_vars

\* C5: Load(id) replaces the current session wholesale: id, message log and
\* goals count become those of the archived entry, the pending nudge is
\* cleared, and the archive is left as it was (the session replaced is not
\* added to it).
C5_LoadReplaces ==
    [][Ran("load") =>
          /\ last'.sid \in DOMAIN sessions
          /\ current_session_id' = sessions[last'.sid].id
          /\ Log' = heap[sessions[last'.sid].messages]
          /\ goals_count' = sessions[last'.sid].goals_count
          /\ coach_mode' = None
          /\ ArchiveSame]_vars

\* an entry of an earlier second was loaded over a session with another id
C5_Witness ==
    /\ last.op = "load"
    /\ current_session_id = last.sid
    /\ current_session_id # strftime(now)
    /\ messages = sessions[last.sid].messages
    /\ Cardinality(DOMAIN sessions) = 2

\* an archived entry as a transcript
EntryTranscript(ss, h, k) ==
    [id |-> ss[k].id,
     created |-> ss[k].created,
     messages |-> h[ss[k].messages],
     elapsed_sec |-> ss[k].elapsed_sec,
     goals_count |-> ss[k].goals_count]

\* the session S a save stores: the current session when the entry is built
\* (for Save Session, with the seed message the button has just appended)
SavedSession ==
    IF last'.op = "quick"
    THEN [Transcript(Cur) EXCEPT
            !.messages = Append(@, Msg("assistant", assistant_seed["save"]))]
    ELSE Transcript(Cur)
SaveStores ==
    IsSave => /\ current_session_id \in DOMAIN sessions'
              /\ EntryTranscript(sessions', heap', current_session_id) = SavedSession

\* C6 (as stated): save(S) stores S, and the transcript exported after loading
\* the entry equals it field for field: id, creation stamp, messages, goals
\* count and elapsed metric.
C6_RoundTripAllFields ==
    [][/\ SaveStores
       /\ Ran("load") =>
              Transcript(Cur)' = EntryTranscript(sessions, heap, last'.sid)]_vars

\* C6 (amended): save(S) stores S, and the transcript exported after loading
\* the entry equals it in id, creation stamp, messages and goals count (the
\* id is not regenerated); the elapsed metric is not carried over: load
\* restarts the session timer, so the export reports 0 elapsed seconds.
C6_RoundTripButElapsed ==
    [][/\ SaveStores
       /\ Ran("load") =>
              /\ Transcript(Cur)'.id = sessions[last'.sid].id
              /\ Transcript(Cur)'.created = sessions[last'.sid].created
              /\ Transcript(Cur)'.messages = heap[sessions[last'.sid].messages]
              /\ Transcript(Cur)'.goals_count = sessions[last'.sid].goals_count
              /\ Transcript(Cur)'.elapsed_sec = 0]_vars

\* an entry saved with elapsed time was loaded and is exported with none
C6_Witness ==
    /\ last.op = "load"
    /\ sessions[last.sid].elapsed_sec > 0
    /\ Transcript(Cur).elapsed_sec = 0
    /\ Transcript(Cur).id = sessions[last.sid].id
    /\ Transcript(Cur).messages = heap[sessions[last.sid].messages]

\* the archive holds a copy of the session the step started from
ArchivedCopy ==
    /\ current_session_id \in DOMAIN sessions'
    /\ sessions'[current_session_id].id = current_session_id
    /\ heap'[sessions'[current_session_id].messages] = Log
    /\ sessions'[current_session_id].goals_count = goals_count

\* C7 (as stated): New Session and Clear chat both archive before resetting:
\* afterwards the archive holds a copy of the session they started from.
C7_ResetsArchive ==
    [][(Ran("new_session") \/ Ran("clear")) => ArchivedCopy]_vars

\* C7 (amended): New Session archives before resetting: afterwards the archive
\* holds a copy of the session it started from (id, messages, goals count).
\* Clear chat does not archive: it resets the message log, goals counter and
\* pending nudge of the current session in place, keeps its id and leaves the
\* archive as it was, so Clear chat, like Load, discards the conversation.
C7_NewSessionArchivesClearDoesNot ==
    [][/\ Ran("new_session") => ArchivedCopy
       /\ Ran("clear") => /\ ArchiveSame
                          /\ current_session_id' = current_session_id
                          /\ Log' = <<Msg("assistant", ClearedGreeting)>>
                          /\ goals_count' = 0
                          /\ coach_mode' = None]_vars

\* New Session has archived a conversation of several messages
C7_Witness ==
    /\ last.op = "new_session"
    /\ Log = <<Msg("assistant", NewSessionGreeting)>>
    /\ \E k \in DOMAIN sessions : Len(heap[sessions[k].messages]) >= 3

\* C8: after New Session the current id is fresh: it differs from the id of
\* the session just archived and from the key of every archived entry.
C8_FreshId ==
    [][Ran("new_session") => /\ current_session_id' # current_session_id
                             /\ current_session_id' \notin DOMAIN sessions']_vars

\* Send was pressed on text that is not blank
NonBlankSend == Ran("send") /\ strip(last'.text) # <<>>

\* C9: a failing model call never aborts the session: every Send of non-blank
\* text, whether the gateway call succeeds or raises, appends exactly the user
\* message and then one assistant message, which carries the error text
\* exactly when the call raised, and clears the pending nudge.  Holding at
\* every step, this covers the Sends that follow a failure.
C9_SendAlwaysAnswers ==
    [][NonBlankSend =>
          /\ Len(Log') = Len(Log) + 2
          /\ SubSeq(Log', 1, Len(Log)) = Log
          /\ Log'[Len(Log) + 1] = Msg("user", strip(last'.text))
          /\ Log'[Len(Log) + 2].role = "assistant"
          /\ last'.failed <=> Head(Log'[Len(Log) + 2].content) = "Model call failed: "
          /\ coach_mode' = None]_vars

\* a Send whose model call raised was answered with the error text
C9_Witness ==
    /\ last.op = "send" /\ last.failed
    /\ Len(Log) >= 3
    /\ Log[Len(Log) - 1] = Msg("user", strip(last.text))
    /\ Log[Len(Log)] = Msg("assistant", <<"Model call failed: ", "timeout">>)
    /\ coach_mode = None

\* C10: without a client no request is ever handed to the model, and every
\* Send of non-blank text appends the user message and then the fixed
\* placeholder as the assistant message.
C10_NoClientPlaceholder ==
    [][~client =>
          /\ sent' = <<>>
          /\ NonBlankSend =>
                Log' = Log \o <<Msg("user", strip(last'.text)),
                                Msg("assistant", NotInitialized)>>]_vars

\* without a client a Send was answered with the placeholder
C10_Witness ==
    /\ ~client
    /\ last.op = "send"
    /\ Len(Log) >= 3
    /\ Log[Len(Log)] = Msg("assistant", NotInitialized)
    /\ sent = <<>>

\* a call of the last run carries a nudge segment
HasNudge(c) == \E a \in 1..Len(c.parts) : c.parts[a].source = "Nudge"

\* C11: a nudge is one-shot.  After any Send the pending nudge is none; a
\* request of a Send carries a nudge segment only if a nudge was pending, and
\* it is the instruction of that nudge; a nudge becomes pending only by the
\* press of its quick action; New Session, Clear chat and Load cancel it.
C11_NudgeOneShot ==
    [][/\ Ran("send") => coach_mode' = None
       /\ Ran("send") =>
             \A i \in 1..Len(sent') :
                HasNudge(sent'[i]) =>
                   /\ coach_mode \in ModeKeys
                   /\ sent'[i].parts[1].text =
                         <<"[Coach Instruction]\n">> \o COACH_PROMPTS[coach_mode]
       /\ (coach_mode' # None /\ coach_mode' # coach_mode) =>
             Ran("quick") /\ last'.mode = coach_mode'
       /\ (Ran("new_session") \/ Ran("clear") \/ Ran("load")) =>
             coach_mode' = None]_vars

\* C12: a turn with a nudge and empty user text is sent: when a nudge is
\* pending and Send is pressed on text that is empty after trimming, one
\* request is made, with the nudge segment and without a user-text segment.
C12_NudgeOnlyTurnSent ==
    [][(Ran("send") /\ strip(last'.text) = <<>> /\ coach_mode \in ModeKeys /\ client) =>
          /\ Len(sent') = 1
          /\ HasNudge(sent'[1])
          /\ \A a \in 1..Len(sent'[1].parts) :
                sent'[1].parts[a].source # "UserText"]_vars

\* the last run was a Send that made a request
Sending == last.op = "send" /\ sent # <<>>

\* the history segment of a message
SegmentOf(m) ==
    (IF m.role = "user" THEN <<"User: ">> ELSE <<"Assistant: ">>) \o m.content

\* the texts of the history segments of a request, in order
HistoryTexts(c) ==
    LET h == SelectSeq(c.parts, LAMBDA p : p.source = "History")
    IN [a \in 1..Len(h) |-> h[a].text]

\* s can be had from t by dropping elements
RECURSIVE IsSubseq(_, _)
IsSubseq(s, t) ==
    IF s = <<>> THEN TRUE
    ELSE IF t = <<>> THEN FALSE
    ELSE IF Head(s) = Head(t) THEN IsSubseq(Tail(s), Tail(t))
    ELSE IsSubseq(s, Tail(t))

\* the log before the Send of the last run added the user message and the reply
PriorLog == SubSeq(Log, 1, Len(Log) - 2)

\* the log as call_model found it: the user message of this Send appended
LogAtCall == SubSeq(Log, 1, Len(Log) - 1)

\* C13 (as stated): the request contains all history: whatever the length of
\* the log, every prior message appears as a history segment, in
\* chronological order, none dropped.
C13_AllHistory ==
    Sending => IsSubseq([i \in 1..Len(PriorLog) |-> SegmentOf(PriorLog[i])],
                        HistoryTexts(sent[1]))

\* C13 (amended): the history segments of a request are the last 16 messages
\* of the log as it stands when the request is composed (all of them when
\* there are at most 16), one segment each, in chronological order; older
\* messages are dropped.
C13_LastSixteen ==
    Sending =>
       LET h == HistoryTexts(sent[1])
           n == Len(LogAtCall)
       IN /\ Len(h) = IF n > 16 THEN 16 ELSE n
          /\ \A a \in 1..Len(h) : h[a] = SegmentOf(LogAtCall[n - Len(h) + a])

\* a request made over a log longer than the window: sixteen history
\* segments, the greeting that opened the log not among them
C13_Witness ==
    /\ Sending
    /\ Len(PriorLog) > 16
    /\ Len(HistoryTexts(sent[1])) = 16
    /\ \A a \in 1..16 : HistoryTexts(sent[1])[a] # SegmentOf(PriorLog[1])

\* the texts of all parts of all candidates, in scanning order
RECURSIVE Flatten(_)
Flatten(cands) == IF cands = <<>> THEN <<>> ELSE Head(cands) \o Flatten(Tail(cands))

\* C14: gateway result selection: the result of a call that returned is the
\* primary text of the response when that is non-empty; otherwise the first
\* non-empty text fragment, scanning the candidates in order and the parts of
\* each candidate in order; the no-text marker only when there is no such
\* fragment.  The result is the content of the assistant message appended.
C14_ResultSelection ==
    (Sending /\ ~sent[1].outcome.raises) =>
       LET o == sent[1].outcome
           fragments == SelectSeq(Flatten(o.candidates), LAMBDA t : t # <<>>)
           result == Log[Len(Log)].content
       IN /\ o.text # <<>> => result = o.text
          /\ (o.text = <<>> /\ fragments # <<>>) => result = Head(fragments)
          /\ (o.text = <<>> /\ fragments = <<>>) => result = NoTextResponse

\* a response without primary text whose first candidate has an empty part
\* and then "A", and whose second candidate starts with "B": the result is "A"
C14_Witness ==
    /\ Sending /\ ~sent[1].outcome.raises
    /\ sent[1].outcome.text = <<>>
    /\ Len(sent[1].outcome.candidates) = 2
    /\ sent[1].outcome.candidates[1] = <<<<>>, <<"A">>>>
    /\ sent[1].outcome.candidates[2] = <<<<"B">>, <<"A">>>>
    /\ Log[Len(Log)] = Msg("assistant", <<"A">>)

\* C15: the config built for a request carries a tool list in every case: a
\* list, not None, whether or not a tool is enabled, and the empty list when
\* every tool toggle is off.
C15_ToolsAlwaysList ==
    Sending => /\ ~sent[1].config.tools.none
               /\ ~use_search_tool => sent[1].config.tools = PyList(<<>>)

\* the Recent Sessions view: the ids listed, in display order
Listing == RecentItems(Cur)

Without(ids, k) == SelectSeq(ids, LAMBDA x : x # k)

\* C16: the Recent Sessions view lists archived sessions most recently
\* archived first.  Step by step: a save puts the session it archives at the
\* head of the list and keeps the others in their order, and nothing else
\* changes the list.
C16_MostRecentlyArchivedFirst ==
    [][IF IsSave
       THEN Listing' = <<current_session_id>> \o Without(Listing, current_session_id)
       ELSE Listing' = Listing]_vars

\* s is a prefix of t
IsPrefix(s, t) == Len(s) <= Len(t) /\ SubSeq(t, 1, Len(s)) = s

\* C17: the message log is append-only within a session: every run other
\* than New Session, Clear chat and Load (a Send, a quick-action press, Save
\* Session with its confirmation, the passing of time) leaves the previous
\* log as a prefix of the new one.
C17_AppendOnly ==
    [][~(Ran("new_session") \/ Ran("clear") \/ Ran("load")) => IsPrefix(Log, Log')]_vars

\* Save Session pressed: its seed and the confirmation were added behind the
\* message the log held
C17_Witness ==
    /\ last.op = "quick" /\ last.mode = "save"
    /\ Len(Log) = 3
    /\ Log[1] = Msg("assistant", Greeting)
    /\ Log[2] = Msg("assistant", assistant_seed["save"])
    /\ Log[3] = Msg("assistant", SavedNotice)

\* C20: the history segments of a request are the turns prior to the one
\* being sent and nothing else, and the new user text is one segment of the
\* request, the final one: it is not among the history segments as well.
C20_HistoryIsPriorTurns ==
    Sending =>
       LET h == HistoryTexts(sent[1])
           p == sent[1].parts
           n == Len(PriorLog)
       IN /\ Len(h) <= n
          /\ \A a \in 1..Len(h) : h[a] = SegmentOf(PriorLog[n - Len(h) + a])
          /\ p[Len(p)] = Part("UserText", <<"User: ">> \o strip(last.text))
          /\ \A a \in 1..(Len(p) - 1) : p[a].source # "UserText"

\* the coaching instruction of Save Session, as a segment of a request
SaveInstruction == <<"[Coach Instruction]\n">> \o COACH_PROMPTS["save"]

\* C21: the 'save' nudge never reaches the model: the run in which Save
\* Session is pressed archives the current session and ends with no nudge
\* pending, so between events the pending nudge is never 'save', and no
\* request holds the 'save' coaching instruction.
C21_SaveNudgeNeverSent ==
    /\ [](/\ coach_mode # "save"
          /\ \A i \in 1..Len(sent) : \A a \in 1..Len(sent[i].parts) :
                sent[i].parts[a].text # SaveInstruction)
    /\ [][(Ran("quick") /\ last'.mode = "save") =>
             /\ coach_mode' = None
             /\ current_session_id \in DOMAIN sessions'
             /\ EntryValue(sessions', heap', current_session_id).messages
                   = Log \o <<Msg("assistant", assistant_seed["save"])>>
             /\ sessions'[current_session_id].goals_count = goals_count]_vars

\* Save Session was pressed while another nudge was pending: the session is
\* archived, confirmed, and no nudge is pending
C21_Witness ==
    /\ last.op = "quick" /\ last.mode = "save"
    /\ coach_mode = None
    /\ current_session_id \in DOMAIN sessions
    /\ Len(Log) >= 3
    /\ Log[Len(Log)] = Msg("assistant", SavedNotice)
    /\ Log[Len(Log) - 1] = Msg("assistant", assistant_seed["save"])

\* the text holds one of the words the goal heuristic looks for, in any case
HasGoalKeyword(text) == \E k \in GoalKeywords : Contains(k, lower(text))

UserMessages(ms) == Len(SelectSeq(ms, LAMBDA m : m.role = "user"))

\* C22: the goals counter changes only so: a Send adds one when the pending
\* nudge is 'goal' and the text holds a goal keyword, and leaves it otherwise;
\* New Session and Clear chat set it to 0; Load sets it to the archived
\* value; a quick-action press, Save Session included, and the passing of
\* time leave it.  It is never negative and never above the number of user
\* messages of the current log.  ('goal' is the one quick action the
\* heuristic takes for a goal nudge.)
C22_GoalsCounterFrame ==
    /\ [][/\ Ran("send") =>
               goals_count' = IF coach_mode = "goal" /\ HasGoalKeyword(last'.text)
                              THEN goals_count + 1 ELSE goals_count
          /\ (Ran("new_session") \/ Ran("clear")) => goals_count' = 0
          /\ Ran("load") => goals_count' = sessions[last'.sid].goals_count
          /\ Ran("quick") => goals_count' = goals_count
          /\ now' # now => goals_count' = goals_count]_vars
    /\ [](/\ goals_count >= 0 /\ goals_count <= UserMessages(Log)
          /\ \A mode \in ModeKeys : GoalMode(mode) <=> mode = "goal")

\* a Send under the goal nudge counted a goal, and a loaded session brought
\* its count along
C22_Witness ==
    /\ last.op = "load"
    /\ goals_count = 1
    /\ UserMessages(Log) >= 1

====
